---- MODULE Spec2Model ----
(***************************************************************************)
(* Model of md_to_json.py (MarkdownToJsonConverter).                       *)
(*                                                                         *)
(* Text is modelled at character level: a Python str is a sequence of      *)
(* one-character strings.  The en-dash U+2013 is the character "ndash".    *)
(* Python's None is the value None below, which is no character sequence.  *)
(***************************************************************************)
EXTENDS Integers, Sequences, FiniteSets, TLC

VARIABLES
    date_tok,      \* SpecDate: the date expression drawn as input (structured)
    date_str,      \* SpecDate: its text, the argument of parse_date
    date_out,      \* SpecDate: [done, start, end], the result of parse_date once done
    part_out,      \* SpecDate: result of _convert_date on the first part, or NotRun
    work_blocks,   \* SpecWork: the job blocks the Experience span is written from;
                   \* SpecSection: the section the document is written from
    work_body,     \* SpecWork, SpecSection: the document body, the extractor's argument
    work_out,      \* SpecWork, SpecSection: [done, value], the extractor's result once done
    hugo_file,     \* Spec: hugo.toml (absent, or its recognised content)
    contact_file,  \* Spec: content/contact.md
    other_file,    \* Spec: content/other.md
    about_file,    \* Spec: content/about.md (absent, or its text)
    projects_file, \* Spec: content/projects.md
    resume_data,   \* Spec: self.resume_data
    config_data,   \* Spec: the value parse_hugo_config returned to build_resume
    contact_info,  \* Spec: the value parse_contact_info returned to build_resume
    saved,         \* Spec: what save_json last wrote, or NotRun
    calls          \* Spec: number of build_resume calls made on the converter

vars == <<date_tok, date_str, date_out, part_out, work_blocks, work_body, work_out,
          hugo_file, contact_file, other_file, about_file, projects_file,
          resume_data, config_data, contact_info, saved, calls>>

dateVars == <<date_tok, date_str, date_out, part_out>>
workVars == <<work_blocks, work_body, work_out>>
buildVars == <<hugo_file, contact_file, other_file, about_file, projects_file,
               resume_data, config_data, contact_info, saved, calls>>

None == <<"None">>
NotRun == <<"NotRun">>
Absent == <<"Absent">>

(***************************************************************************)
(* Characters and the str methods the converter uses.                      *)
(***************************************************************************)
NL == "\n"
NDASH == "ndash"
LowerSeq == <<"a","b","c","d","e","f","g","h","i","j","k","l","m",
              "n","o","p","q","r","s","t","u","v","w","x","y","z">>
UpperSeq == <<"A","B","C","D","E","F","G","H","I","J","K","L","M",
              "N","O","P","Q","R","S","T","U","V","W","X","Y","Z">>
DigitChars == {"0","1","2","3","4","5","6","7","8","9"}
SpaceChars == {" ", "\n", "\t"}
LetterChars == {LowerSeq[i] : i \in 1..26} \cup {UpperSeq[i] : i \in 1..26}
WordChars == LetterChars \cup DigitChars \cup {"_"}

IsSpace(c) == c \in SpaceChars
IsDigit(c) == c \in DigitChars

LowerChar(c) ==
    IF \E i \in 1..26 : UpperSeq[i] = c
    THEN LowerSeq[CHOOSE i \in 1..26 : UpperSeq[i] = c]
    ELSE c
UpperChar(c) ==
    IF \E i \in 1..26 : LowerSeq[i] = c
    THEN UpperSeq[CHOOSE i \in 1..26 : LowerSeq[i] = c]
    ELSE c

\* str.lower()
Lower(s) == [i \in 1..Len(s) |-> LowerChar(s[i])]
Upper(s) == [i \in 1..Len(s) |-> UpperChar(s[i])]

\* s[from:] (1-based from)
Drop(s, n) == SubSeq(s, n + 1, Len(s))
Take(s, n) == SubSeq(s, 1, IF n < Len(s) THEN n ELSE Len(s))

\* number of leading / trailing characters of s that lie in set cs
LeadIn(s, cs) ==
    IF \A i \in 1..Len(s) : s[i] \in cs THEN Len(s)
    ELSE (CHOOSE i \in 1..Len(s) : s[i] \notin cs /\ \A j \in 1..(i-1) : s[j] \in cs) - 1
TrailIn(s, cs) ==
    IF \A i \in 1..Len(s) : s[i] \in cs THEN Len(s)
    ELSE Len(s) - (CHOOSE i \in 1..Len(s) : s[i] \notin cs /\ \A j \in (i+1)..Len(s) : s[j] \in cs)

\* number of leading characters of s that lie outside set cs
LeadOut(s, cs) ==
    IF \A i \in 1..Len(s) : s[i] \notin cs THEN Len(s)
    ELSE (CHOOSE i \in 1..Len(s) : s[i] \in cs /\ \A j \in 1..(i-1) : s[j] \notin cs) - 1

\* str.lstrip(chars), str.rstrip(chars), str.strip(chars)
LStripChars(s, cs) == Drop(s, LeadIn(s, cs))
RStripChars(s, cs) == Take(s, Len(s) - TrailIn(s, cs))
StripChars(s, cs) == RStripChars(LStripChars(s, cs), cs)
\* str.strip()
Strip(s) == StripChars(s, SpaceChars)

\* s.startswith(p) at 1-based position i
MatchAt(s, i, p) ==
    /\ i >= 1
    /\ i + Len(p) - 1 <= Len(s)
    /\ \A k \in 1..Len(p) : s[i + k - 1] = p[k]
StartsWith(s, p) == MatchAt(s, 1, p)
\* p in s
Contains(s, p) == \E i \in 1..(Len(s) - Len(p) + 1) : MatchAt(s, i, p)
\* first position >= from where p occurs in s, 0 if none
FindFrom(s, p, from) ==
    IF \E i \in from..(Len(s) - Len(p) + 1) : MatchAt(s, i, p)
    THEN CHOOSE i \in from..(Len(s) - Len(p) + 1) :
            MatchAt(s, i, p) /\ \A j \in from..(i-1) : ~MatchAt(s, j, p)
    ELSE 0

\* str.split(sep) for a non-empty separator
RECURSIVE Split(_, _)
Split(s, sep) ==
    LET i == FindFrom(s, sep, 1) IN
    IF i = 0 THEN <<s>>
    ELSE <<SubSeq(s, 1, i - 1)>> \o Split(Drop(s, i + Len(sep) - 1), sep)

\* sep.join(parts)
RECURSIVE Join(_, _)
Join(parts, sep) ==
    IF parts = <<>> THEN <<>>
    ELSE IF Len(parts) = 1 THEN parts[1]
    ELSE parts[1] \o sep \o Join(Tail(parts), sep)

(***************************************************************************)
(* parse_date and _convert_date (the Date Normalizer).                     *)
(***************************************************************************)
MonthNames == << <<"j","a","n">>, <<"f","e","b">>, <<"m","a","r">>, <<"a","p","r">>,
                 <<"m","a","y">>, <<"j","u","n">>, <<"j","u","l">>, <<"a","u","g">>,
                 <<"s","e","p">>, <<"o","c","t">>, <<"n","o","v">>, <<"d","e","c">> >>
MonthNumbers == << <<"0","1">>, <<"0","2">>, <<"0","3">>, <<"0","4">>,
                   <<"0","5">>, <<"0","6">>, <<"0","7">>, <<"0","8">>,
                   <<"0","9">>, <<"1","0">>, <<"1","1">>, <<"1","2">> >>

\* month_map: None stands for "key not in month_map"
month_map(name) ==
    IF \E i \in 1..12 : MonthNames[i] = name
    THEN MonthNumbers[CHOOSE i \in 1..12 : MonthNames[i] = name]
    ELSE None

\* re.match(r'(\w+)\s+(\d{4})', s): <<group 1, group 2>>, or None.  \w+ and \s+ are
\* greedy and no shorter choice of either lets the rest match.
MatchMonthYear(s) ==
    LET w == LeadIn(s, WordChars)
        r1 == Drop(s, w)
        sp == LeadIn(r1, SpaceChars)
        r2 == Drop(r1, sp)
    IN  IF w >= 1 /\ sp >= 1 /\ Len(r2) >= 4 /\ \A k \in 1..4 : IsDigit(r2[k])
        THEN <<Take(s, w), Take(r2, 4)>>
        ELSE None

\* re.match(r'(\d{4})', s): group 1, or None
MatchYear(s) ==
    IF Len(s) >= 4 /\ \A k \in 1..4 : IsDigit(s[k]) THEN Take(s, 4) ELSE None

\* _convert_date with the month looked up as written (no .lower())
ConvertDateCaseSensitive(date_str0) ==
    LET s == Strip(date_str0)
        m == MatchMonthYear(s)
        month_name == Take(m[1], 3)
    IN  IF m # None /\ month_map(month_name) # None
        THEN m[2] \o <<"-">> \o month_map(month_name)
        ELSE MatchYear(s)

_convert_date(date_str0) ==
    LET s == Strip(date_str0)
        m == MatchMonthYear(s)
        month_name == Take(Lower(m[1]), 3)
    IN  IF m # None /\ month_map(month_name) # None
        THEN m[2] \o <<"-">> \o month_map(month_name)
        ELSE MatchYear(s)

\* parse_date whose single-date branch returns (date, None)
ParseDateSingleNoEnd(date_str0) ==
    LET s == StripChars(date_str0, {"(", ")", "*"})
    IN  IF Contains(s, <<NDASH>>) \/ Contains(s, <<"-">>)
        THEN LET separator == IF Contains(s, <<NDASH>>) THEN <<NDASH>> ELSE <<"-">>
                 raw == Split(s, separator)
                 parts == [i \in 1..Len(raw) |-> Strip(raw[i])]
             IN  [start |-> _convert_date(parts[1]),
                  end |-> IF Len(parts) < 2 \/ Contains(Lower(parts[2]), <<"p","r","e","s","e","n","t">>)
                          THEN None
                          ELSE _convert_date(parts[2])]
        ELSE LET date == _convert_date(s) IN [start |-> date, end |-> None]

\* parse_date without the test for "present" in the second part
ParseDateNoPresent(date_str0) ==
    LET s == StripChars(date_str0, {"(", ")", "*"})
    IN  IF Contains(s, <<NDASH>>) \/ Contains(s, <<"-">>)
        THEN LET separator == IF Contains(s, <<NDASH>>) THEN <<NDASH>> ELSE <<"-">>
                 raw == Split(s, separator)
                 parts == [i \in 1..Len(raw) |-> Strip(raw[i])]
             IN  [start |-> _convert_date(parts[1]),
                  end |-> IF Len(parts) < 2 THEN None ELSE _convert_date(parts[2])]
        ELSE LET date == _convert_date(s) IN [start |-> date, end |-> date]

\* parse_date testing the first part for "present" (parts[0] for parts[1])
ParseDatePresentInFirst(date_str0) ==
    LET s == StripChars(date_str0, {"(", ")", "*"})
    IN  IF Contains(s, <<NDASH>>) \/ Contains(s, <<"-">>)
        THEN LET separator == IF Contains(s, <<NDASH>>) THEN <<NDASH>> ELSE <<"-">>
                 raw == Split(s, separator)
                 parts == [i \in 1..Len(raw) |-> Strip(raw[i])]
             IN  [start |-> _convert_date(parts[1]),
                  end |-> IF Len(parts) < 2 \/ Contains(Lower(parts[1]), <<"p","r","e","s","e","n","t">>)
                          THEN None
                          ELSE _convert_date(parts[2])]
        ELSE LET date == _convert_date(s) IN [start |-> date, end |-> date]

\* parse_date returns the tuple (start_date, end_date)
parse_date(date_str0) ==
    LET s == StripChars(date_str0, {"(", ")", "*"})
    IN  IF Contains(s, <<NDASH>>) \/ Contains(s, <<"-">>)
        THEN LET separator == IF Contains(s, <<NDASH>>) THEN <<NDASH>> ELSE <<"-">>
                 raw == Split(s, separator)
                 parts == [i \in 1..Len(raw) |-> Strip(raw[i])]
             IN  [start |-> _convert_date(parts[1]),
                  end |-> IF Len(parts) < 2 \/ Contains(Lower(parts[2]), <<"p","r","e","s","e","n","t">>)
                          THEN None
                          ELSE _convert_date(parts[2])]
        ELSE LET date == _convert_date(s) IN [start |-> date, end |-> date]

(***************************************************************************)
(* Section spans and the Work Experience extractor.                        *)
(***************************************************************************)
\* the lookahead \n##\s+[^#] at position p of s
HeadingAhead(s, p) ==
    /\ MatchAt(s, p, <<NL, "#", "#">>)
    /\ LET r == LeadIn(Drop(s, p + 2), SpaceChars)
       IN  /\ r >= 1
           /\ \/ r >= 2
              \/ (p + 3 + r <= Len(s) /\ s[p + 3 + r] # "#")

\* the lookahead \n--- at position p of s
RuleAhead(s, p) == MatchAt(s, p, <<NL, "-", "-", "-">>)

\* ##\s+<name>\s*\n matched at position i of s: the position after the match, 0 if
\* it does not match there.  \s*\n ends at the last newline of the whitespace run.
HeadingEnd(s, i, name) ==
    IF ~MatchAt(s, i, <<"#", "#">>) THEN 0
    ELSE LET r == LeadIn(Drop(s, i + 1), SpaceChars)
             n == i + 2 + r
         IN  IF r < 1 \/ ~MatchAt(s, n, name) THEN 0
             ELSE LET a == n + Len(name)
                      w == LeadIn(Drop(s, a - 1), SpaceChars)
                      nls == {k \in a..(a + w - 1) : s[k] = NL}
                  IN  IF nls = {} THEN 0
                      ELSE 1 + CHOOSE k \in nls : \A j \in nls : j <= k

\* re.search(r'##\s+<name>\s*\n(.*?)(?=\n##\s+[^#]|\Z)', content, re.DOTALL), and with
\* rule = TRUE the lookahead (?=\n##\s+[^#]|\n---|\Z): group 1, or None
SectionSpan(content, name, rule) ==
    LET starts == {i \in 1..Len(content) : HeadingEnd(content, i, name) # 0}
    IN  IF starts = {} THEN None
        ELSE LET i == CHOOSE k \in starts : \A j \in starts : k <= j
                 q == HeadingEnd(content, i, name)
                 stops == {e \in q..Len(content) :
                              HeadingAhead(content, e) \/ (rule /\ RuleAhead(content, e))}
                 e == IF stops = {} THEN Len(content) + 1
                      ELSE CHOOSE k \in stops : \A j \in stops : k <= j
             IN  SubSeq(content, q, e - 1)

\* re.sub(pat, rep, s) for a literal pattern
RECURSIVE ReplaceAll(_, _, _)
ReplaceAll(s, pat, rep) ==
    LET i == FindFrom(s, pat, 1) IN
    IF i = 0 THEN s
    ELSE Take(s, i - 1) \o rep \o ReplaceAll(Drop(s, i + Len(pat) - 1), pat, rep)

\* re.split(r'###\s+', s)
RECURSIVE SplitSubHeadings(_)
SplitSubHeadings(s) ==
    LET hits == {i \in 1..Len(s) : MatchAt(s, i, <<"#", "#", "#">>)
                                    /\ i + 3 <= Len(s) /\ IsSpace(s[i + 3])}
    IN  IF hits = {} THEN <<s>>
        ELSE LET i == CHOOSE k \in hits : \A j \in hits : k <= j
                 r == LeadIn(Drop(s, i + 2), SpaceChars)
             IN  <<Take(s, i - 1)>> \o SplitSubHeadings(Drop(s, i + 2 + r))

\* re.match(r'\*\*([^*]+)\*\*\s*[ndash-]\s*(.+)', line): <<group 1, group 2 stripped>>,
\* or None.  The line holds no newline, so (.+) matches whatever is left.
MatchCompanyLine(line) ==
    IF ~StartsWith(line, <<"*", "*">>) THEN None
    ELSE LET n == LeadOut(Drop(line, 2), {"*"})
             r1 == Drop(line, 2 + n)
         IN  IF n < 1 \/ ~StartsWith(r1, <<"*", "*">>) THEN None
             ELSE LET r2 == LStripChars(Drop(r1, 2), SpaceChars)
                  IN  IF Len(r2) >= 2 /\ r2[1] \in {NDASH, "-"}
                      THEN <<SubSeq(line, 3, 2 + n), Strip(Tail(r2))>>
                      ELSE None

\* re.match(r'\(\*([^)]+)\*\)', line): group 1, or None
MatchDatesLine(line) ==
    LET closes == {k \in 1..Len(line) : line[k] = ")"}
    IN  IF ~StartsWith(line, <<"(", "*">>) \/ closes = {} THEN None
        ELSE LET k == CHOOSE c \in closes : \A j \in closes : c <= j
             IN  IF k >= 5 /\ line[k - 1] = "*" THEN SubSeq(line, 3, k - 2) ELSE None

\* lines 251-260: the lines after the first blank line of lines[3:], joined and stripped
Description(lines) ==
    LET blanks == {i \in 4..Len(lines) : Strip(lines[i]) = <<>>}
    IN  IF blanks = {} THEN <<>>
        ELSE LET b == CHOOSE k \in blanks : \A j \in blanks : k <= j
             IN  Strip(Join(SubSeq(lines, b + 1, Len(lines)), <<NL>>))

\* the work entry with work_entry["endDate"] = end_date set unconditionally
WorkEntryAlwaysEnd(position, company, location, description, dates) ==
    LET d == parse_date(dates)
    IN  [position |-> position, name |-> company, location |-> location,
         startDate |-> d.start, summary |-> description, endDate |-> d.end]

\* lines 262-273: the work entry; the endDate key exists only for a truthy end date
WorkEntry(position, company, location, description, dates) ==
    LET d == parse_date(dates)
        base == [position |-> position, name |-> company, location |-> location,
                 startDate |-> d.start, summary |-> description]
    IN  IF d.end # None /\ d.end # <<>>
        THEN [position |-> position, name |-> company, location |-> location,
              startDate |-> d.start, summary |-> description, endDate |-> d.end]
        ELSE base

\* the body of the loop over job_sections: the entries (none or one) a section adds
JobEntries(section) ==
    IF Strip(section) = <<>> THEN <<>>
    ELSE LET lines == Split(Strip(section), <<NL>>)
         IN  IF Len(lines) < 3 THEN <<>>
             ELSE LET company_match == MatchCompanyLine(lines[2])
                      dates_match == MatchDatesLine(lines[3])
                  IN  IF company_match = None THEN <<>>
                      ELSE IF dates_match = None THEN <<>>
                      ELSE << WorkEntry(Strip(lines[1]), Strip(company_match[1]),
                                        company_match[2], Description(lines),
                                        Strip(dates_match)) >>

\* the loop leaving at the first block whose company line does not match (break for
\* continue at line 237)
RECURSIVE JobLoopBreak(_)
JobLoopBreak(job_sections) ==
    IF job_sections = <<>> THEN <<>>
    ELSE LET section == Head(job_sections)
             lines == Split(Strip(section), <<NL>>)
         IN  IF Strip(section) # <<>> /\ Len(lines) >= 3 /\ MatchCompanyLine(lines[2]) = None
             THEN <<>>
             ELSE JobEntries(section) \o JobLoopBreak(Tail(job_sections))

RECURSIVE JobLoop(_)
JobLoop(job_sections) ==
    IF job_sections = <<>> THEN <<>>
    ELSE JobEntries(Head(job_sections)) \o JobLoop(Tail(job_sections))

parse_work_experience(content) ==
    LET exp_match == SectionSpan(content, <<"E","x","p","e","r","i","e","n","c","e">>, FALSE)
    IN  IF exp_match = None THEN <<>>
        ELSE JobLoop(SplitSubHeadings(
                 ReplaceAll(exp_match, <<NL, "-", "-", "-", NL>>, <<NL, NL>>)))

(***************************************************************************)
(* Python dicts: functions whose domain is the set of keys present.        *)
(***************************************************************************)
EmptyDict == [k \in {} |-> k]
Put(d, k, v) == (k :> v) @@ d
\* d.get(k, default)
Get(d, k, default) == IF k \in DOMAIN d THEN d[k] ELSE default

(***************************************************************************)
(* parse_front_matter: the body it returns (build_resume and               *)
(* parse_projects discard the metadata mapping).                           *)
(***************************************************************************)
T_Plus3 == <<"+", "+", "+">>

\* content.split('+++', 2)
SplitPlus2(content) ==
    LET i == FindFrom(content, T_Plus3, 1)
    IN  IF i = 0 THEN <<content>>
        ELSE LET rest == Drop(content, i + 2)
                 j == FindFrom(rest, T_Plus3, 1)
             IN  IF j = 0 THEN <<Take(content, i - 1), rest>>
                 ELSE <<Take(content, i - 1), Take(rest, j - 1), Drop(rest, j + 2)>>

front_matter_body(content) ==
    IF StartsWith(content, T_Plus3) /\ Len(SplitPlus2(content)) >= 3
    THEN Strip(SplitPlus2(content)[3])
    ELSE content

(***************************************************************************)
(* parse_skills.                                                           *)
(***************************************************************************)
\* the line [from..] of s up to its newline
LineFrom(s, from) == Take(Drop(s, from - 1), LeadOut(Drop(s, from - 1), {NL}))

\* -\s+\*\*([^:]+):\*\*\s+(.+) matched at position i of s:
\* [ok, cat |-> group 1, items |-> group 2, next |-> position after the match]
NoSkillLine == [ok |-> FALSE, cat |-> <<>>, items |-> <<>>, next |-> 0]
SkillLineAt(s, i) ==
    IF ~MatchAt(s, i, <<"-">>) THEN NoSkillLine
    ELSE LET r == LeadIn(Drop(s, i), SpaceChars)
             a == i + 1 + r
         IN  IF r < 1 \/ ~MatchAt(s, a, <<"*", "*">>) THEN NoSkillLine
             ELSE LET n == LeadOut(Drop(s, a + 1), {":"})
                      c == a + 2 + n
                  IN  IF n < 1 \/ ~MatchAt(s, c, <<":", "*", "*">>) THEN NoSkillLine
                      ELSE LET w == LeadIn(Drop(s, c + 2), SpaceChars)
                               b == c + 3 + w
                               line == LineFrom(s, b)
                               back == {j \in (c + 4)..(b - 1) : s[j] # NL}
                           IN  IF w < 1 THEN NoSkillLine
                               ELSE IF line # <<>>
                               THEN [ok |-> TRUE, cat |-> SubSeq(s, a + 2, c - 1), items |-> line,
                                     next |-> b + Len(line)]
                               ELSE IF back # {}
                               THEN LET j == CHOOSE k \in back : \A m \in back : m <= k
                                    IN  [ok |-> TRUE, cat |-> SubSeq(s, a + 2, c - 1),
                                         items |-> LineFrom(s, j),
                                         next |-> j + Len(LineFrom(s, j))]
                               ELSE NoSkillLine

\* item.strip() for item in items.split(',')
Keywords(items) == LET raw == Split(items, <<",">>) IN [i \in 1..Len(raw) |-> Strip(raw[i])]

\* re.finditer over skills_content from position from
RECURSIVE SkillLines(_, _)
SkillLines(s, from) ==
    LET hits == {i \in from..Len(s) : SkillLineAt(s, i).ok}
    IN  IF hits = {} THEN <<>>
        ELSE LET i == CHOOSE k \in hits : \A j \in hits : k <= j
                 m == SkillLineAt(s, i)
             IN  << [name |-> Strip(m.cat), keywords |-> Keywords(Strip(m.items))] >>
                 \o SkillLines(s, m.next)

parse_skills(content) ==
    LET skills_match == SectionSpan(content, <<"S","k","i","l","l","s">>, TRUE)
    IN  IF skills_match = None THEN <<>> ELSE SkillLines(skills_match, 1)

(***************************************************************************)
(* parse_education.                                                        *)
(***************************************************************************)
\* re.sub(r'\n\*[^*]+\*\s*$', '', s)
StripTrailingItalic(s) ==
    LET hits == {p \in 1..Len(s) :
                    /\ MatchAt(s, p, <<NL, "*">>)
                    /\ LET n == LeadOut(Drop(s, p + 1), {"*"})
                       IN  /\ n >= 1
                           /\ p + 2 + n <= Len(s)
                           /\ \A j \in (p + 3 + n)..Len(s) : IsSpace(s[j])}
    IN  IF hits = {} THEN s
        ELSE Take(s, (CHOOSE k \in hits : \A j \in hits : k <= j) - 1)

\* re.match(r'\*\*([^*]+)\*\*', line): group 1, or None
MatchInstitutionLine(line) ==
    IF ~StartsWith(line, <<"*", "*">>) THEN None
    ELSE LET n == LeadOut(Drop(line, 2), {"*"})
         IN  IF n >= 1 /\ MatchAt(line, 3 + n, <<"*", "*">>) THEN SubSeq(line, 3, 2 + n)
             ELSE None

\* lines 322-332: the non-blank lines after the first blank line of lines[3:]
EduDescription(lines) ==
    LET blanks == {i \in 4..Len(lines) : Strip(lines[i]) = <<>>}
    IN  IF blanks = {} THEN <<>>
        ELSE LET b == CHOOSE k \in blanks : \A j \in blanks : k <= j
                 RECURSIVE Keep(_)
                 Keep(i) == IF i > Len(lines) THEN <<>>
                            ELSE (IF Strip(lines[i]) # <<>> THEN <<lines[i]>> ELSE <<>>)
                                 \o Keep(i + 1)
             IN  Strip(Join(Keep(b + 1), <<NL>>))

\* re.match(r'([^,]+)(?:,\s*(.+))?', degree_info): <<study_type, area>>
DegreeInfo(degree_info) ==
    LET n == LeadOut(degree_info, {","})
    IN  IF n < 1 THEN <<degree_info, <<>> >>
        ELSE <<Strip(Take(degree_info, n)), Strip(LineFrom(degree_info, n + 2))>>

\* re.search(r'Thesis:\s*([^\n]+)', description, re.IGNORECASE) when 'thesis' is in
\* description.lower(): the courses list
ThesisCourses(description) ==
    LET low == Lower(description)
        key == <<"t","h","e","s","i","s",":">>
        hits == {i \in 1..Len(low) :
                    /\ MatchAt(low, i, key)
                    /\ LET r == Drop(description, i + 6)
                           w == LeadIn(r, SpaceChars)
                       IN  \/ LineFrom(r, w + 1) # <<>>
                           \/ \E j \in 1..w : r[j] # NL}
    IN  IF hits = {} THEN <<>>
        ELSE LET i == CHOOSE k \in hits : \A j \in hits : k <= j
                 r == Drop(description, i + 6)
                 w == LeadIn(r, SpaceChars)
                 back == {j \in 1..w : r[j] # NL}
             IN  IF LineFrom(r, w + 1) # <<>> THEN << Strip(LineFrom(r, w + 1)) >>
                 ELSE << Strip(LineFrom(r, CHOOSE k \in back : \A j \in back : j <= k)) >>

EduEntries(section) ==
    IF Strip(section) = <<>> THEN <<>>
    ELSE LET lines == Split(Strip(section), <<NL>>)
         IN  IF Len(lines) < 3 THEN <<>>
             ELSE LET institution_match == MatchInstitutionLine(lines[2])
                      dates_match == MatchDatesLine(lines[3])
                      d == parse_date(Strip(dates_match))
                      deg == DegreeInfo(Strip(lines[1]))
                  IN  IF institution_match = None THEN <<>>
                      ELSE IF dates_match = None THEN <<>>
                      ELSE << [institution |-> Strip(institution_match),
                               studyType |-> deg[1], area |-> deg[2],
                               startDate |-> d.start, endDate |-> d.end,
                               score |-> <<>>,
                               courses |-> ThesisCourses(EduDescription(lines))] >>

RECURSIVE EduLoop(_)
EduLoop(edu_sections) ==
    IF edu_sections = <<>> THEN <<>>
    ELSE EduEntries(Head(edu_sections)) \o EduLoop(Tail(edu_sections))

parse_education(content) ==
    LET edu_match == SectionSpan(content, <<"E","d","u","c","a","t","i","o","n">>, FALSE)
    IN  IF edu_match = None THEN <<>>
        ELSE EduLoop(SplitSubHeadings(StripTrailingItalic(
                 ReplaceAll(edu_match, <<NL, "-", "-", "-", NL>>, <<NL, NL>>))))

(***************************************************************************)
(* parse_hugo_config.  hugo_file.exists tells whether hugo.toml is  *)
(* there; the other fields are what the                                    *)
(* regular expressions of lines 46-70 find in hugo.toml: title, baseURL,   *)
(* author (None when not found), the quoted items of info, and for each    *)
(* [[params.social]] block its name and url (None when not found).         *)
(***************************************************************************)
\* lines 65-73: the profiles of the social blocks
RECURSIVE SocialProfiles(_)
SocialProfiles(social) ==
    IF social = <<>> THEN <<>>
    ELSE LET block == Head(social)
             p1 == IF block.name # None THEN Put(EmptyDict, "network", block.name)
                   ELSE EmptyDict
             profile == IF block.url # None THEN Put(p1, "url", block.url) ELSE p1
         IN  (IF DOMAIN profile # {} THEN <<profile>> ELSE <<>>)
             \o SocialProfiles(Tail(social))

parse_hugo_config(file) ==
    IF ~file.exists THEN EmptyDict
    ELSE LET c1 == IF file.title # None THEN Put(EmptyDict, "name", file.title)
                   ELSE EmptyDict
             c2 == IF file.baseURL # None
                   THEN Put(c1, "url", RStripChars(file.baseURL, {"/"})) ELSE c1
             c3 == IF file.author # None THEN Put(c2, "author", file.author) ELSE c2
             c4 == IF file.info # <<>> THEN Put(c3, "label", file.info[1]) ELSE c3
         IN  Put(c4, "profiles", SocialProfiles(file.social))

(***************************************************************************)
(* parse_contact_info.  contact_file holds, when it exists, what the regular *)
(* expressions of lines 109-115 find in contact.md: whether the obfuscated *)
(* address is there, the first plain address, the user name of the first   *)
(* linkedin.com/in/ link (None when not found).  other_file holds          *)
(* the text after the **Phone:**, **City:** and **Country:** markers       *)
(* (None when the marker is not there).                                    *)
(***************************************************************************)
T_Email == <<"s", "a", "l", "e", "h", ".", "m", "e", "h", "d", "i", "k", "h", "a", "n", "i", "@", "g", "m", "a", "i", "l", ".", "c", "o", "m">>
T_LinkedInUrl == <<"h", "t", "t", "p", "s", ":", "/", "/", "w", "w", "w", ".", "l", "i", "n", "k", "e", "d", "i", "n", ".", "c", "o", "m", "/", "i", "n", "/">>
T_PhonePrefix == <<"+", "3", "5", "8", " ">>

\* re.search(r'\*\*Phone:\*\*\s*(\d+)') on the text after the marker: the phone, or None
PhoneOf(text) ==
    LET r == LStripChars(text, SpaceChars)
        n == LeadIn(r, DigitChars)
        phone == Strip(Take(r, n))
    IN  IF n < 1 THEN None
        ELSE IF ~StartsWith(phone, <<"+">>) THEN T_PhonePrefix \o LStripChars(phone, {"0"})
        ELSE phone

\* \s*(\w+) on the text after a marker: the word, or None
WordOf(text) ==
    LET r == LStripChars(text, SpaceChars)
        n == LeadIn(r, WordChars)
    IN  IF n < 1 THEN None ELSE Take(r, n)

parse_contact_info(contact, other) ==
    LET c1 == IF ~contact.exists THEN EmptyDict
              ELSE IF contact.obfuscated THEN Put(EmptyDict, "email", T_Email)
              ELSE IF contact.email # None THEN Put(EmptyDict, "email", contact.email)
              ELSE EmptyDict
        c2 == IF contact.exists /\ contact.linkedin # None
              THEN Put(c1, "linkedin", T_LinkedInUrl \o contact.linkedin \o <<"/">>)
              ELSE c1
        c3 == IF other.exists /\ other.phone # None /\ PhoneOf(other.phone) # None
              THEN Put(c2, "phone", PhoneOf(other.phone)) ELSE c2
        c4 == IF other.exists /\ other.city # None /\ WordOf(other.city) # None
              THEN Put(c3, "city", WordOf(other.city)) ELSE c3
    IN  IF other.exists /\ other.country # None /\ WordOf(other.country) # None
        THEN Put(c4, "country", WordOf(other.country)) ELSE c4

(***************************************************************************)
(* parse_projects.  projects_file holds, when it exists, the matches of     *)
(* project_pattern in projects.md: for each its title line, its            *)
(* technologies, the urls of its "View on"/"Demo" links and of its http    *)
(* links, and its description with links unwrapped and bold markers        *)
(* removed (lines 392-403).                                                *)
(***************************************************************************)
\* re.match(r'([^:\[]+)(?::\s*\[([^\]]+)\])?', title_line): <<name, entity>>
TitleInfo(title_line) ==
    LET n == LeadOut(title_line, {":", "["})
        r == LStripChars(Drop(title_line, n + 1), SpaceChars)
        e == LeadOut(Drop(r, 1), {"]"})
    IN  IF n < 1 THEN <<title_line, <<>> >>
        ELSE IF /\ MatchAt(title_line, n + 1, <<":">>)
                /\ StartsWith(r, <<"[">>)
                /\ e >= 1 /\ MatchAt(r, e + 2, <<"]">>)
        THEN <<Strip(Take(title_line, n)), Strip(SubSeq(r, 2, e + 1))>>
        ELSE <<Strip(Take(title_line, n)), <<>> >>

\* item.strip().lstrip('* ').rstrip()
Highlight(item) == RStripChars(LStripChars(Strip(item), {"*", " "}), SpaceChars)

ProjectEntry(m) ==
    LET title_line == Strip(m.title_line)
        clean_desc == Strip(m.clean_desc)
        parts == Split(clean_desc, <<NL, "-">>)
        bullets == Contains(clean_desc, <<NL, "-">>)
    IN  [name |-> TitleInfo(title_line)[1],
         summary |-> IF bullets THEN Strip(parts[1]) ELSE clean_desc,
         highlights |-> IF bullets THEN [i \in 1..(Len(parts) - 1) |-> Highlight(parts[i + 1])]
                        ELSE <<>>,
         keywords |-> Keywords(Strip(m.technologies)),
         startDate |-> <<>>, endDate |-> <<>>,
         url |-> IF m.view_urls # <<>> THEN m.view_urls[1]
                 ELSE IF m.plain_urls # <<>> THEN m.plain_urls[1]
                 ELSE <<>>,
         roles |-> <<>>,
         entity |-> TitleInfo(title_line)[2],
         type |-> <<>>]

parse_projects(file) ==
    IF ~file.exists THEN <<>>
    ELSE [i \in 1..Len(file.matches) |-> ProjectEntry(file.matches[i])]

(***************************************************************************)
(* The converter: __init__, build_resume, save_json.                       *)
(***************************************************************************)
T_DefaultName == <<"S", "a", "l", "e", "h", " ", "M", "e", "h", "d", "i", "k", "h", "a", "n", "i">>
T_DefaultLabel == <<"S", "e", "n", "i", "o", "r", " ", "S", "y", "s", "t", "e", "m", " ", "S", "o", "f", "t", "w", "a", "r", "e", " ", "D", "e", "v", "e", "l", "o", "p", "e", "r">>
T_Version == <<"v", "1", ".", "0", ".", "0">>
T_Canonical == <<"h", "t", "t", "p", "s", ":", "/", "/", "g", "i", "t", "h", "u", "b", ".", "c", "o", "m", "/", "j", "s", "o", "n", "r", "e", "s", "u", "m", "e", "/", "r", "e", "s", "u", "m", "e", "-", "s", "c", "h", "e", "m", "a", "/", "b", "l", "o", "b", "/", "v", "1", ".", "0", ".", "0", "/", "s", "c", "h", "e", "m", "a", ".", "j", "s", "o", "n">>
T_LinkedIn == <<"L", "i", "n", "k", "e", "d", "I", "n">>
T_FI == <<"F", "I">>
T_Finland == <<"F", "i", "n", "l", "a", "n", "d">>

\* self.resume_data as __init__ leaves it
InitialResume ==
    [basics |-> EmptyDict, work |-> <<>>, education |-> <<>>, skills |-> <<>>,
     projects |-> <<>>, volunteer |-> <<>>, awards |-> <<>>, publications |-> <<>>,
     languages |-> <<>>, interests |-> <<>>, references |-> <<>>,
     meta |-> [version |-> T_Version, canonical |-> T_Canonical]]

\* re.match(r'([^\n]+(?:\n(?!##)[^\n]+)*)', text): group 1 stripped, "" without a match
RECURSIVE ParagraphLines(_, _)
ParagraphLines(lines, i) ==
    IF i > Len(lines) \/ lines[i] = <<>> \/ StartsWith(lines[i], <<"#", "#">>) THEN <<>>
    ELSE <<lines[i]>> \o ParagraphLines(lines, i + 1)

Summary(text) ==
    LET lines == Split(text, <<NL>>)
    IN  IF lines[1] = <<>> THEN <<>>
        ELSE Strip(Join(<<lines[1]>> \o ParagraphLines(lines, 2), <<NL>>))

\* contact_info.get('linkedin', '').split('/')[-2]
LinkedInUser(url) == LET parts == Split(url, <<"/">>) IN parts[Len(parts) - 1]

\* the test of line 467 made without regard to letter case
HasLinkedInAnyCase(profiles) ==
    \E i \in 1..Len(profiles) :
        Lower(Get(profiles[i], "network", None)) = Lower(T_LinkedIn)

\* line 467: any(p.get('network') == 'LinkedIn' for p in profiles)
HasLinkedIn(profiles) ==
    \E i \in 1..Len(profiles) : Get(profiles[i], "network", None) = T_LinkedIn

\* lines 459-468: the profiles list after the LinkedIn step; the list is the one
\* config_data holds, appended to in place
ProfilesAfter(config, contact) ==
    LET profiles == Get(config, "profiles", <<>>)
    IN  IF Get(contact, "linkedin", <<>>) # <<>> /\ ~HasLinkedIn(profiles)
        THEN Append(profiles, [network |-> T_LinkedIn,
                               username |-> LinkedInUser(contact["linkedin"]),
                               url |-> contact["linkedin"]])
        ELSE profiles

\* basics built with contact_info.get(key) and config_data.get(key), without defaults
BasicsNoDefaults(config, contact, about) ==
    [name |-> Get(config, "name", T_DefaultName),
     label |-> Get(config, "label", T_DefaultLabel),
     email |-> Get(contact, "email", None),
     phone |-> Get(contact, "phone", None),
     url |-> Get(config, "url", None),
     summary |-> IF about = Absent THEN <<>>
                 ELSE Summary(Strip(front_matter_body(about))),
     location |-> [city |-> Get(contact, "city", None),
                   countryCode |-> T_FI,
                   region |-> Get(contact, "country", T_Finland)],
     profiles |-> ProfilesAfter(config, contact)]

\* lines 444-479: basics
Basics(config, contact, about) ==
    [name |-> Get(config, "name", T_DefaultName),
     label |-> Get(config, "label", T_DefaultLabel),
     email |-> Get(contact, "email", <<>>),
     phone |-> Get(contact, "phone", <<>>),
     url |-> Get(config, "url", <<>>),
     summary |-> IF about = Absent THEN <<>>
                 ELSE Summary(Strip(front_matter_body(about))),
     location |-> [city |-> Get(contact, "city", <<>>),
                   countryCode |-> T_FI,
                   region |-> Get(contact, "country", T_Finland)],
     profiles |-> ProfilesAfter(config, contact)]

\* build_resume assigning a new dict of the sections it fills to self.resume_data
BuiltResumeFresh(old, config, contact, about, projects) ==
    LET body == front_matter_body(about)
    IN  [basics |-> Basics(config, contact, about),
         skills |-> IF about = Absent THEN old.skills ELSE parse_skills(body),
         work |-> IF about = Absent THEN old.work ELSE parse_work_experience(body),
         education |-> IF about = Absent THEN old.education ELSE parse_education(body),
         projects |-> parse_projects(projects)]

\* build_resume extending the lists of self.resume_data instead of assigning them
BuiltResumeExtend(old, config, contact, about, projects) ==
    LET body == front_matter_body(about)
    IN  [old EXCEPT
            !.basics = Basics(config, contact, about),
            !.skills = IF about = Absent THEN old.skills ELSE old.skills \o parse_skills(body),
            !.work = IF about = Absent THEN old.work
                     ELSE old.work \o parse_work_experience(body),
            !.education = IF about = Absent THEN old.education
                          ELSE old.education \o parse_education(body),
            !.projects = old.projects \o parse_projects(projects)]

\* the record build_resume leaves in self.resume_data
BuiltResume(old, config, contact, about, projects) ==
    LET body == front_matter_body(about)
    IN  [old EXCEPT
            !.basics = Basics(config, contact, about),
            !.skills = IF about = Absent THEN old.skills ELSE parse_skills(body),
            !.work = IF about = Absent THEN old.work ELSE parse_work_experience(body),
            !.education = IF about = Absent THEN old.education ELSE parse_education(body),
            !.projects = parse_projects(projects)]

(***************************************************************************)
(* Date expressions the Date Normalizer is run on.  A part is written from *)
(* a token: kind "my" is <month abbreviation><spaces><year>, "year" a bare *)
(* 4-digit year, "junk" text that is neither, "present" text that contains *)
(* the word present.                                                       *)
(***************************************************************************)
MaxSpaces == 2

Years == { <<"2","0","1","9">>, <<"1","9","9","8">> }
Cases == {"lower", "title", "upper"}
JunkTexts == { <<"2","0","1","9","5">>,
               <<"2","0","1","9","x">>,
               <<"F","o","o"," ","2","0","1","9">>,
               <<"s","o","o","n">>,
               <<"1","9">> }
PresentTexts == { <<"p","r","e","s","e","n","t">>,
                  <<"P","r","e","s","e","n","t">>,
                  <<"P","R","E","S","E","N","T">>,
                  <<"2","0","2","5"," ","(","p","r","e","s","e","n","t",")">> }
NoSep == <<>>
Separators == { <<NDASH>>, <<"-">>, <<" ", NDASH, " ">>, <<" ", "-", " ">> }

PartTok(k, m, cs, sp, y, text) == [k |-> k, m |-> m, cs |-> cs, sp |-> sp, y |-> y, text |-> text]
MonthYearToks == { PartTok("my", m, cs, sp, y, <<>>) :
                      m \in 1..12, cs \in Cases, sp \in 1..MaxSpaces, y \in Years }
YearToks == { PartTok("year", 0, "lower", 0, y, <<>>) : y \in Years }
JunkToks == { PartTok("junk", 0, "lower", 0, <<>>, t) : t \in JunkTexts }
PresentToks == { PartTok("present", 0, "lower", 0, <<>>, t) : t \in PresentTexts }
NoPart == PartTok("none", 0, "lower", 0, <<>>, <<>>)

\* the parts ranges are written from
RangeParts == { PartTok("my", m, "title", 1, <<"2","0","1","9">>, <<>>) : m \in {1, 9} }
              \cup YearToks \cup JunkToks

DateToks ==
    { [first |-> f, sep |-> NoSep, second |-> NoPart, deco |-> d] :
         f \in MonthYearToks \cup YearToks \cup JunkToks, d \in BOOLEAN }
    \cup
    { [first |-> f, sep |-> s, second |-> t, deco |-> d] :
         f \in RangeParts, s \in Separators, t \in RangeParts \cup PresentToks, d \in BOOLEAN }

Spaces(n) == [i \in 1..n |-> " "]
MonthWord(m, cs) ==
    LET w == MonthNames[m] IN
    IF cs = "lower" THEN w
    ELSE IF cs = "upper" THEN Upper(w)
    ELSE <<UpperChar(w[1])>> \o Tail(w)

RenderPart(p) ==
    IF p.k = "my" THEN MonthWord(p.m, p.cs) \o Spaces(p.sp) \o p.y
    ELSE IF p.k = "year" THEN p.y
    ELSE p.text

RenderDate(t) ==
    LET inner == IF t.sep = NoSep THEN RenderPart(t.first)
                 ELSE RenderPart(t.first) \o t.sep \o RenderPart(t.second)
    IN  IF t.deco THEN <<"(", "*">> \o inner \o <<"*", ")">> ELSE inner

\* date_out before parse_date has returned
NoDate == [done |-> FALSE, start |-> None, end |-> None]

\* work_out before parse_work_experience has returned
NoWork == [done |-> FALSE, value |-> <<>>]

\* the variables of the harnesses a specification does not use
IdleDate ==
    /\ date_tok = NotRun /\ date_str = NotRun /\ date_out = NoDate /\ part_out = NotRun
IdleWork ==
    /\ work_blocks = NotRun /\ work_body = NotRun /\ work_out = NoWork
IdleBuild ==
    /\ hugo_file = NotRun /\ contact_file = NotRun /\ other_file = NotRun
    /\ about_file = NotRun /\ projects_file = NotRun /\ resume_data = NotRun
    /\ config_data = NotRun /\ contact_info = NotRun /\ saved = NotRun /\ calls = 0

InitDate ==
    /\ date_tok \in DateToks
    /\ date_str = RenderDate(date_tok)
    /\ date_out = NoDate
    /\ part_out = NotRun
    /\ IdleWork /\ IdleBuild

\* a call parse_date(date_str)
ParseDate ==
    /\ ~date_out.done
    /\ date_out' = [done |-> TRUE, start |-> parse_date(date_str).start,
                                  end |-> parse_date(date_str).end]
    /\ UNCHANGED <<date_tok, date_str, part_out>>

\* a call _convert_date(part) on the first part of the expression
ConvertDate ==
    /\ part_out = NotRun
    /\ part_out' = _convert_date(RenderPart(date_tok.first))
    /\ UNCHANGED <<date_tok, date_str, date_out>>

(***************************************************************************)
(* Documents parse_work_experience is run on.  A job block is written from *)
(* a token: its position line, its company line (bold or not, separator,   *)
(* location), its dates line (a date expression, wrapped in (* *) when     *)
(* deco) and its summary.  lines < 3 leaves out the dates line and the     *)
(* summary.                                                                *)
(***************************************************************************)
MaxBlocks == 2

T_Engineer == <<"E","n","g","i","n","e","e","r">>
T_LeadDev == <<"L","e","a","d"," ","D","e","v"," ">>
T_Acme == <<"A","c","m","e">>
T_BetaOy == <<"B","e","t","a"," ","O","y">>
T_Helsinki == <<"H","e","l","s","i","n","k","i">>
T_Espoo == <<"E","s","p","o","o"," ">>
T_Built == <<"B","u","i","l","t"," ","i","t",".">>
T_LedShipped == <<"L","e","d"," ","i","t",".", NL, NL, "S","h","i","p","p","e","d",".">>
Jan2019 == PartTok("my", 1, "title", 1, <<"2","0","1","9">>, <<>>)
Sep2019 == PartTok("my", 9, "title", 1, <<"2","0","1","9">>, <<>>)
Year1998 == PartTok("year", 0, "lower", 0, <<"1","9","9","8">>, <<>>)
Soon == PartTok("junk", 0, "lower", 0, <<>>, <<"s","o","o","n">>)
PresentLower == PartTok("present", 0, "lower", 0, <<>>, <<"p","r","e","s","e","n","t">>)
PresentTitle == PartTok("present", 0, "lower", 0, <<>>, <<"P","r","e","s","e","n","t">>)
EnDash == <<" ", NDASH, " ">>
Hyphen == <<" ", "-", " ">>

DateTok(f, s, t, d) == [first |-> f, sep |-> s, second |-> t, deco |-> d]
BlockTok(p, c, b, s, l, n, d, sm) ==
    [position |-> p, company |-> c, bold |-> b, sep |-> s, location |-> l,
     lines |-> n, dates |-> d, summary |-> sm]

\* well-formed blocks whose end date is "present"
PresentBlocks ==
    { BlockTok(T_Engineer, T_Acme, TRUE, EnDash, T_Helsinki, 5,
               DateTok(Jan2019, EnDash, PresentLower, TRUE), T_Built),
      BlockTok(T_LeadDev, T_BetaOy, TRUE, Hyphen, T_Espoo, 5,
               DateTok(Sep2019, Hyphen, PresentTitle, TRUE), T_LedShipped) }
\* well-formed blocks with a closed range, a single year, no summary
DatedBlocks ==
    { BlockTok(T_Engineer, T_BetaOy, TRUE, EnDash, T_Helsinki, 5,
               DateTok(Year1998, EnDash, Jan2019, TRUE), T_Built),
      BlockTok(T_LeadDev, T_Acme, TRUE, Hyphen, T_Helsinki, 5,
               DateTok(Year1998, NoSep, NoPart, TRUE), T_Built),
      BlockTok(T_Engineer, T_Acme, TRUE, EnDash, T_Espoo, 3,
               DateTok(Sep2019, EnDash, Year1998, TRUE), <<>>) }
\* blocks whose company line does not match **Company** - Location
BadCompanyBlocks ==
    { BlockTok(T_Engineer, T_Acme, FALSE, EnDash, T_Helsinki, 5,
               DateTok(Jan2019, EnDash, PresentLower, TRUE), T_Built),
      BlockTok(T_LeadDev, T_Acme, TRUE, <<" ">>, T_Helsinki, 5,
               DateTok(Jan2019, EnDash, PresentLower, TRUE), T_Built) }
\* blocks with a dates line that is no (*...*), with fewer than 3 lines, with dates
\* that do not parse, with a blank company name
OtherBlocks ==
    { BlockTok(T_Engineer, T_Acme, TRUE, EnDash, T_Helsinki, 5,
               DateTok(Jan2019, EnDash, PresentLower, FALSE), T_Built),
      BlockTok(T_Engineer, T_Acme, TRUE, EnDash, T_Helsinki, 2,
               DateTok(Jan2019, EnDash, PresentLower, TRUE), <<>>),
      BlockTok(T_Engineer, T_Acme, TRUE, EnDash, T_Helsinki, 5,
               DateTok(Soon, EnDash, PresentLower, TRUE), T_Built),
      BlockTok(T_Engineer, <<" ">>, TRUE, EnDash, T_Helsinki, 5,
               DateTok(Jan2019, EnDash, PresentLower, TRUE), T_Built) }
BlockToks == PresentBlocks \cup DatedBlocks \cup BadCompanyBlocks \cup OtherBlocks

\* how the body is laid out around the blocks
Styles == {"plain", "rule", "trailer", "noheading"}

RECURSIVE SeqsUpTo(_, _)
SeqsUpTo(S, n) ==
    IF n = 0 THEN { <<>> }
    ELSE SeqsUpTo(S, n - 1) \cup
         { Append(q, x) : q \in {r \in SeqsUpTo(S, n - 1) : Len(r) = n - 1}, x \in S }

CompanyLine(b) ==
    (IF b.bold THEN <<"*", "*">> \o b.company \o <<"*", "*">> ELSE b.company)
    \o b.sep \o b.location

RenderBlock(b) ==
    <<"#", "#", "#", " ">> \o b.position \o <<NL>> \o CompanyLine(b) \o <<NL>>
    \o (IF b.lines >= 3 THEN RenderDate(b.dates) \o <<NL>> ELSE <<>>)
    \o (IF b.summary # <<>> THEN <<NL>> \o b.summary \o <<NL>> ELSE <<>>)
    \o <<NL>>

T_Intro == <<"A","b","o","u","t"," ","m","e",".", NL, NL>>
T_ExperienceHeading == <<"#", "#", " ", "E","x","p","e","r","i","e","n","c","e", NL, NL>>
T_Rule == <<"-", "-", "-", NL, NL>>
T_EducationSection ==
    <<"#", "#", " ", "E","d","u","c","a","t","i","o","n", NL, NL,
      "#", "#", "#", " ", "M","S","c", NL,
      "*", "*", "U","n","i", "*", "*", NL,
      "(", "*", "1","9","9","8", " ", NDASH, " ", "2","0","1","9", "*", ")", NL>>

RenderBody(blocks, style) ==
    T_Intro
    \o (IF style = "noheading" THEN <<>> ELSE T_ExperienceHeading)
    \o Join([i \in 1..Len(blocks) |-> RenderBlock(blocks[i])],
            IF style = "rule" THEN T_Rule ELSE <<>>)
    \o (IF style = "trailer" THEN T_EducationSection ELSE <<>>)

InitWork ==
    /\ work_blocks \in [blocks : SeqsUpTo(BlockToks, MaxBlocks), style : Styles]
    /\ work_body = RenderBody(work_blocks.blocks, work_blocks.style)
    /\ work_out = NoWork
    /\ IdleDate /\ IdleBuild

\* a call parse_work_experience(work_body)
ParseWork ==
    /\ ~work_out.done
    /\ work_out' = [done |-> TRUE, value |-> parse_work_experience(work_body)]
    /\ UNCHANGED <<work_blocks, work_body>>

(***************************************************************************)
(* The input documents build_resume is run on.                             *)
(***************************************************************************)
MaxSocial == 2
MaxCalls == 2

T_Url1 == <<"h", "t", "t", "p", "s", ":", "/", "/", "w", "w", "w", ".", "l", "i", "n", "k", "e", "d", "i", "n", ".", "c", "o", "m", "/", "i", "n", "/", "c", "f", "g", "/">>
T_Url2 == <<"h", "t", "t", "p", "s", ":", "/", "/", "x", ".", "f", "i", "/", "m", "e">>
SocialBlocks ==
    { [name |-> T_LinkedIn, url |-> T_Url1],
      [name |-> Lower(T_LinkedIn), url |-> T_Url1],
      [name |-> None, url |-> T_Url2] }

NoHugo == [exists |-> FALSE, title |-> None, baseURL |-> None, author |-> None,
           info |-> <<>>, social |-> <<>>]
HugoFiles ==
    {NoHugo}
    \cup { [exists |-> TRUE, title |-> None, baseURL |-> None, author |-> None,
            info |-> <<>>, social |-> sb] : sb \in SeqsUpTo(SocialBlocks, MaxSocial) }
    \cup { [exists |-> TRUE, title |-> <<"S", "a", "l", "e", "h", " ", "M">>,
            baseURL |-> <<"h", "t", "t", "p", "s", ":", "/", "/", "x", ".", "f", "i", "/">>,
            author |-> <<"S", "a", "l", "e", "h">>,
            info |-> << <<"D", "e", "v", "e", "l", "o", "p", "e", "r">>, <<"M", "a", "k", "e", "r">> >>,
            social |-> sb] : sb \in SeqsUpTo(SocialBlocks, MaxSocial) }

FullHugo ==
    [exists |-> TRUE, title |-> <<"S", "a", "l", "e", "h", " ", "M">>,
     baseURL |-> <<"h", "t", "t", "p", "s", ":", "/", "/", "x", ".", "f", "i", "/">>,
     author |-> <<"S", "a", "l", "e", "h">>,
     info |-> << <<"D", "e", "v", "e", "l", "o", "p", "e", "r">>, <<"M", "a", "k", "e", "r">> >>,
     social |-> << [name |-> T_LinkedIn, url |-> T_Url1] >>]

NoContact == [exists |-> FALSE, obfuscated |-> FALSE, email |-> None, linkedin |-> None]
ContactFiles ==
    { NoContact,
      [exists |-> TRUE, obfuscated |-> TRUE, email |-> None, linkedin |-> None],
      [exists |-> TRUE, obfuscated |-> FALSE, email |-> <<"m", "e", "@", "x", ".", "f", "i">>,
       linkedin |-> <<"s", "a", "l", "e", "h", "-", "m">>] }

NoOther == [exists |-> FALSE, phone |-> None, city |-> None, country |-> None]
OtherFiles ==
    { NoOther,
      [exists |-> TRUE, phone |-> <<" ", "0", "4", "0", "1", "2", "3", "4">>, city |-> <<" ", "E", "s", "p", "o", "o">>,
       country |-> <<" ", "F", "i", "n", "l", "a", "n", "d">>],
      [exists |-> TRUE, phone |-> <<" ", "+", "3", "5", "8", "4", "0", "1", "2", "3", "4">>,
       city |-> None, country |-> None] }

T_About1 ==
    <<"+", "+", "+", "\n", "t", "i", "t", "l", "e", " ", "=", " ", "\"", "A", "b",
      "o", "u", "t", "\"", "\n", "+", "+", "+", "\n", "\n", "A", "b", "o", "u",
      "t", " ", "m", "e", ".", "\n", "M", "o", "r", "e", ".", "\n", "\n", "#", "#",
      " ", "S", "k", "i", "l", "l", "s", "\n", "\n", "-", " ", "*", "*", "L", "a",
      "n", "g", "u", "a", "g", "e", "s", ":", "*", "*", " ", "P", "y", "t", "h",
      "o", "n", ",", " ", "G", "o", "\n", "-", " ", "*", "*", "T", "o", "o", "l",
      "s", ":", "*", "*", " ", "G", "i", "t", "\n", "\n", "-", "-", "-", "\n",
      "\n", "#", "#", " ", "E", "x", "p", "e", "r", "i", "e", "n", "c", "e", "\n",
      "\n", "#", "#", "#", " ", "E", "n", "g", "i", "n", "e", "e", "r", "\n", "*",
      "*", "A", "c", "m", "e", "*", "*", " ", "ndash", " ", "H", "e", "l", "s",
      "i", "n", "k", "i", "\n", "(", "*", "J", "a", "n", " ", "2", "0", "1", "9",
      " ", "ndash", " ", "p", "r", "e", "s", "e", "n", "t", "*", ")", "\n", "\n",
      "B", "u", "i", "l", "t", " ", "i", "t", ".", "\n", "\n", "-", "-", "-", "\n",
      "\n", "#", "#", "#", " ", "L", "e", "a", "d", " ", "D", "e", "v", "\n", "*",
      "*", "B", "e", "t", "a", " ", "O", "y", "*", "*", " ", "-", " ", "E", "s",
      "p", "o", "o", "\n", "(", "*", "1", "9", "9", "8", " ", "-", " ", "S", "e",
      "p", " ", "2", "0", "1", "9", "*", ")", "\n", "\n", "L", "e", "d", " ", "i",
      "t", ".", "\n", "\n", "#", "#", " ", "E", "d", "u", "c", "a", "t", "i", "o",
      "n", "\n", "\n", "#", "#", "#", " ", "M", "a", "s", "t", "e", "r", " ", "o",
      "f", " ", "S", "c", "i", "e", "n", "c", "e", " ", "(", "M", "S", ")", ",",
      " ", "C", "o", "m", "p", "u", "t", "e", "r", " ", "A", "r", "c", "h", "i",
      "t", "e", "c", "t", "u", "r", "e", "\n", "*", "*", "U", "n", "i", "*", "*",
      "\n", "(", "*", "1", "9", "9", "8", " ", "ndash", " ", "2", "0", "1", "9",
      "*", ")", "\n", "\n", "T", "h", "e", "s", "i", "s", ":", " ", "F", "a", "s",
      "t", " ", "c", "a", "c", "h", "e", "s", "\n", "\n", "*", "D", "e", "t", "a",
      "i", "l", "s", " ", "o", "n", " ", "r", "e", "q", "u", "e", "s", "t", "*",
      "\n">>
T_About2 ==
    <<"#", "#", " ", "E", "x", "p", "e", "r", "i", "e", "n", "c", "e", "\n", "\n",
      "#", "#", "#", " ", "E", "n", "g", "i", "n", "e", "e", "r", "\n", "*", "*",
      "A", "c", "m", "e", "*", "*", " ", "ndash", " ", "H", "e", "l", "s", "i",
      "n", "k", "i", "\n", "(", "*", "s", "o", "o", "n", " ", "ndash", " ", "p",
      "r", "e", "s", "e", "n", "t", "*", ")", "\n", "\n", "B", "u", "i", "l", "t",
      " ", "i", "t", ".", "\n">>
AboutFiles == {Absent, T_About1, T_About2}

NoProjects == [exists |-> FALSE, matches |-> <<>>]
ProjectsFiles ==
    { NoProjects,
      [exists |-> TRUE,
       matches |-> << [title_line |-> <<"R", "e", "s", "u", "m", "e", " ", "K", "i", "t", ":", " ", "[", "H", "o", "b", "b", "y", "]">>,
                       technologies |-> <<"P", "y", "t", "h", "o", "n", ",", " ", "H", "u", "g", "o">>,
                       view_urls |-> <<>>,
                       plain_urls |-> << T_Url2 >>,
                       clean_desc |-> <<"A", " ", "t", "o", "o", "l", ".", "\n", "-", " ", "f", "a", "s", "t", "\n", "-", " ", "*", " ", "s", "m", "a", "l", "l">>] >>] }

\* every combination of present and absent documents, and every site configuration
\* with every contact document
Inputs ==
    [hugo : {NoHugo, FullHugo}, contact : ContactFiles, other : OtherFiles,
     about : AboutFiles, projects : ProjectsFiles]
    \cup
    [hugo : HugoFiles, contact : ContactFiles, other : {NoOther},
     about : {Absent}, projects : {NoProjects}]

Init ==
    /\ \E inp \in Inputs :
          /\ hugo_file = inp.hugo
          /\ contact_file = inp.contact
          /\ other_file = inp.other
          /\ about_file = inp.about
          /\ projects_file = inp.projects
    /\ resume_data = InitialResume
    /\ config_data = EmptyDict
    /\ contact_info = EmptyDict
    /\ saved = [done |-> FALSE, value |-> InitialResume]
    /\ calls = 0
    /\ IdleDate /\ IdleWork

\* a call build_resume().  config_data' is the dict parse_hugo_config returned, as it
\* is when build_resume returns: its profiles list is the list basics.profiles is.
BuildResume ==
    /\ calls < MaxCalls
    /\ LET config == parse_hugo_config(hugo_file)
           contact == parse_contact_info(contact_file, other_file)
       IN  /\ resume_data' = BuiltResume(resume_data, config, contact, about_file, projects_file)
           /\ config_data' = IF "profiles" \in DOMAIN config
                             THEN [config EXCEPT !["profiles"] = ProfilesAfter(config, contact)]
                             ELSE config
           /\ contact_info' = contact
    /\ calls' = calls + 1
    /\ UNCHANGED <<hugo_file, contact_file, other_file, about_file, projects_file, saved>>

\* a call save_json(output_path): json.dump of self.resume_data
SaveJson ==
    /\ saved' = [done |-> TRUE, value |-> resume_data]
    /\ UNCHANGED <<hugo_file, contact_file, other_file, about_file, projects_file,
                   resume_data, config_data, contact_info, calls>>

Next ==
    \/ BuildResume /\ UNCHANGED <<dateVars, workVars>>
    \/ SaveJson /\ UNCHANGED <<dateVars, workVars>>

Spec == Init /\ [][Next]_vars

NextDate ==
    \/ ParseDate /\ UNCHANGED <<workVars, buildVars>>
    \/ ConvertDate /\ UNCHANGED <<workVars, buildVars>>

NextWork ==
    ParseWork /\ UNCHANGED <<dateVars, buildVars>>

\* parse_work_experience run on every document of InitWork
SpecWork == InitWork /\ [][NextWork]_vars

\* the Date Normalizer run on every date expression of DateToks
SpecDate == InitDate /\ [][NextDate]_vars

(***************************************************************************)
(* Properties of the Date Normalizer, checked under SpecDate.              *)
(***************************************************************************)
DigitSeq == <<"0","1","2","3","4","5","6","7","8","9">>
TwoDigits(n) == <<DigitSeq[(n \div 10) + 1], DigitSeq[(n % 10) + 1]>>

\* what the specification says a part normalizes to
Normalized(p) ==
    IF p.k = "my" THEN p.y \o <<"-">> \o TwoDigits(p.m)
    ELSE IF p.k = "year" THEN p.y
    ELSE None

\* C5: a "Month Year" string with a recognised 3-letter month abbreviation in any
\* letter case and a 4-digit year is normalized to "YYYY-MM", by _convert_date and
\* by parse_date when it is the whole expression.
C5_MonthYearToIso ==
    date_tok.first.k = "my" =>
        /\ part_out # NotRun => part_out = Normalized(date_tok.first)
        /\ (date_out.done /\ date_tok.sep = NoSep) =>
               date_out.start = Normalized(date_tok.first)

C5_Witness ==
    /\ date_tok.first.k = "my" /\ date_tok.first.cs = "upper" /\ date_tok.first.m = 9
    /\ date_tok.sep = NoSep
    /\ date_out.done
    /\ part_out = <<"2","0","1","9","-","0","9">>

\* C6: without a range separator parse_date returns one normalized date as both
\* start and end; a bare 4-digit year is returned unchanged as both.
C6_SingleDateBoth ==
    (date_out.done /\ date_tok.sep = NoSep) =>
        /\ date_out.start = date_out.end
        /\ date_tok.first.k \in {"my", "year"} => date_out.end = Normalized(date_tok.first)
        /\ date_tok.first.k = "year" => date_out.start = date_tok.first.y

C6_Witness ==
    /\ date_out.done /\ date_tok.sep = NoSep /\ date_tok.first.k = "year"
    /\ date_out.start = <<"1","9","9","8">> /\ date_out.end = <<"1","9","9","8">>

\* C7: a range whose second part contains "present" in any letter case has a null
\* end date and the normalization of its first part as start date, with an en-dash
\* or a hyphen as separator.
C7_PresentEndsNull ==
    (date_out.done /\ date_tok.sep # NoSep /\ date_tok.second.k = "present") =>
        /\ date_out.end = None
        /\ date_out.start = _convert_date(RenderPart(date_tok.first))
        /\ date_tok.first.k \in {"my", "year"} => date_out.start = Normalized(date_tok.first)

C7_Witness ==
    /\ date_out.done /\ date_tok.sep = <<" ", "-", " ">>
    /\ date_tok.second.text = <<"2","0","2","5"," ","(","p","r","e","s","e","n","t",")">>
    /\ date_tok.first.k = "my"
    /\ date_out.start = <<"2","0","1","9","-","0","1">> /\ date_out.end = None

\* C8: every date part that is neither a "Month Year" token with a recognised month
\* abbreviation nor a bare 4-digit year is normalized to null.
C8_UnrecognisedIsNull ==
    /\ (part_out # NotRun /\ date_tok.first.k = "junk") => part_out = None
    /\ (date_out.done /\ date_tok.first.k = "junk") => date_out.start = None
    /\ (date_out.done /\ date_tok.second.k = "junk") => date_out.end = None

\* end texts the Date Normalizer does not recognise as a date
UnrecognisedEnds == { PartTok("junk", 0, "lower", 0, <<>>, t) :
                         t \in { <<"s","o","o","n">>, <<"1","9">>,
                                 <<"F","o","o"," ","2","0","1","9">> } }

\* the range of date_tok with its second part replaced by u
WithEnd(u) == RenderDate([date_tok EXCEPT !.second = u])

\* C9: a range ending in "present" and the range with the same first part ending
\* in unrecognised text give different results, so that the caller can tell an
\* open-ended end date from an unparseable one.
C9_PresentDistinct ==
    (date_out.done /\ date_tok.sep # NoSep /\ date_tok.second.k = "present") =>
        \A u \in UnrecognisedEnds :
            \/ parse_date(WithEnd(u)) # [start |-> date_out.start, end |-> date_out.end]
            \/ WorkEntry(T_Engineer, T_Acme, T_Helsinki, T_Built, WithEnd(u))
                   # WorkEntry(T_Engineer, T_Acme, T_Helsinki, T_Built, date_str)

\* C9 as amended: both ranges give the same result, (start, null), and the same
\* work entry, which has no endDate key.
C9_PresentSameAsUnparseable ==
    (date_out.done /\ date_tok.sep # NoSep /\ date_tok.second.k = "present") =>
        \A u \in UnrecognisedEnds :
            /\ date_out.end = None
            /\ parse_date(WithEnd(u)) = [start |-> date_out.start, end |-> date_out.end]
            /\ WorkEntry(T_Engineer, T_Acme, T_Helsinki, T_Built, WithEnd(u))
                   = WorkEntry(T_Engineer, T_Acme, T_Helsinki, T_Built, date_str)
            /\ "endDate" \notin DOMAIN WorkEntry(T_Engineer, T_Acme, T_Helsinki, T_Built, date_str)

C9_Witness ==
    /\ date_out.done /\ date_tok.sep = <<NDASH>> /\ date_tok.second.k = "present"
    /\ date_tok.second.text = <<"P","R","E","S","E","N","T">>
    /\ date_tok.first.k = "year" /\ date_out.start = <<"1","9","9","8">>
    /\ date_out.end = None

(***************************************************************************)
(* Properties of the Work Experience extractor, checked under SpecWork.    *)
(***************************************************************************)
\* C3: every emitted work entry has a non-empty position, a non-empty organization
\* name and a non-null start date.
C3_EntriesComplete ==
    work_out.done =>
        \A i \in 1..Len(work_out.value) :
            /\ work_out.value[i].position # <<>>
            /\ work_out.value[i].name # <<>>
            /\ work_out.value[i].startDate # None

\* the company line of block b is of the shape **Company** - Location
CompanyLineOk(b) ==
    /\ b.bold
    /\ \E i \in 1..Len(b.sep) : b.sep[i] \in {NDASH, "-"}

RECURSIVE WithoutBadCompany(_)
WithoutBadCompany(blocks) ==
    IF blocks = <<>> THEN <<>>
    ELSE (IF CompanyLineOk(Head(blocks)) THEN <<Head(blocks)>> ELSE <<>>)
         \o WithoutBadCompany(Tail(blocks))

\* C4: the blocks whose second line is no **Company** - Location line are dropped
\* and parsing goes on: the work list is the one of the document without them.
C4_BadCompanyDropped ==
    work_out.done =>
        work_out.value =
            parse_work_experience(
                RenderBody(WithoutBadCompany(work_blocks.blocks), work_blocks.style))

C4_Witness ==
    /\ work_out.done /\ work_blocks.style = "plain"
    /\ Len(work_blocks.blocks) = 2
    /\ ~CompanyLineOk(work_blocks.blocks[1])
    /\ work_blocks.blocks[2] \in PresentBlocks
    /\ Len(work_out.value) = 1
    /\ work_out.value[1].position = Strip(work_blocks.blocks[2].position)

\* the entry the specification gives for a well-formed block ending in "present"
PresentEntry(b) ==
    [position |-> Strip(b.position), name |-> Strip(b.company),
     location |-> Strip(b.location), startDate |-> Normalized(b.dates.first),
     summary |-> b.summary]

\* C10: a well-formed block with a (*start - present*) dates line yields exactly one
\* entry: the trimmed position, name and location, the normalized start, the text
\* after the first blank line as summary, and no endDate key.
C10_PresentBlockEntry ==
    (work_out.done /\ work_blocks.style # "noheading"
       /\ \A i \in 1..Len(work_blocks.blocks) : work_blocks.blocks[i] \in PresentBlocks) =>
        /\ work_out.value = [i \in 1..Len(work_blocks.blocks) |->
                                PresentEntry(work_blocks.blocks[i])]
        /\ \A i \in 1..Len(work_out.value) : "endDate" \notin DOMAIN work_out.value[i]

C10_Witness ==
    /\ work_out.done /\ work_blocks.style = "plain"
    /\ Len(work_blocks.blocks) = 1 /\ work_blocks.blocks[1] \in PresentBlocks
    /\ work_out.value = << [position |-> T_Engineer, name |-> T_Acme,
                            location |-> T_Helsinki,
                            startDate |-> <<"2","0","1","9","-","0","1">>,
                            summary |-> T_Built] >>

(***************************************************************************)
(* Properties of the converter's record, checked under Spec.               *)
(***************************************************************************)
ListFields == {"work", "education", "skills", "projects", "volunteer", "awards",
               "publications", "languages", "interests", "references"}
IsList(v) == DOMAIN v = 1..Len(v)

\* C1: in every state of the record, after construction and after any number of
\* build_resume calls, the ten top-level list fields are present and are lists, and
\* meta.version and meta.canonical are present with their fixed values.
C1_TopLevelFields ==
    /\ ListFields \cup {"meta"} \subseteq DOMAIN resume_data
    /\ \A f \in ListFields : IsList(resume_data[f])
    /\ DOMAIN resume_data.meta = {"version", "canonical"}
    /\ resume_data.meta.version = <<"v", "1", ".", "0", ".", "0">>
    /\ resume_data.meta.canonical = T_Canonical

C1_Witness ==
    /\ calls = MaxCalls
    /\ ~hugo_file.exists /\ ~contact_file.exists /\ ~other_file.exists
    /\ about_file = Absent /\ ~projects_file.exists
    /\ resume_data.work = <<>> /\ resume_data.projects = <<>>
    /\ resume_data.volunteer = <<>>

\* the site configuration declares a social profile whose network is "LinkedIn"
ConfigLinkedIn == {i \in 1..Len(hugo_file.social) : hugo_file.social[i].name = T_LinkedIn}
\* contact parsing finds a LinkedIn URL
ContactLinkedIn == contact_file.exists /\ contact_file.linkedin # None
\* the entries of basics.profiles whose network is "LinkedIn"
LinkedInEntries ==
    {i \in 1..Len(resume_data.basics.profiles) :
        Get(resume_data.basics.profiles[i], "network", None) = T_LinkedIn}
\* the profiles the social blocks of the configuration declare
RECURSIVE DeclaredProfiles(_)
DeclaredProfiles(social) ==
    IF social = <<>> THEN <<>>
    ELSE LET b == Head(social)
         IN  (IF b.name # None /\ b.url # None THEN << [network |-> b.name, url |-> b.url] >>
              ELSE IF b.name # None THEN << [network |-> b.name] >>
              ELSE IF b.url # None THEN << [url |-> b.url] >>
              ELSE <<>>)
             \o DeclaredProfiles(Tail(social))
\* the profile made of the LinkedIn URL of the contact document
ContactProfile ==
    [network |-> T_LinkedIn, username |-> contact_file.linkedin,
     url |-> T_LinkedInUrl \o contact_file.linkedin \o <<"/">>]

\* C2: after build_resume, when the configuration declares a "LinkedIn" profile and
\* contact parsing finds a LinkedIn URL, basics.profiles holds exactly one "LinkedIn"
\* entry, the one of the configuration; the contact-derived profile is appended only
\* when no existing entry's network equals "LinkedIn".
C2_ExactlyOneLinkedIn ==
    (calls >= 1 /\ ConfigLinkedIn # {} /\ ContactLinkedIn) =>
        /\ Cardinality(LinkedInEntries) = 1
        /\ \A i \in LinkedInEntries :
               "username" \notin DOMAIN resume_data.basics.profiles[i]

\* C2 as amended: in that case basics.profiles is the list the configuration
\* declares, with as many "LinkedIn" entries as the configuration declares and no
\* contact-derived one; the contact-derived profile is appended, last, exactly when
\* contact parsing finds a LinkedIn URL and no declared network equals "LinkedIn".
C2_NoContactDuplicate ==
    calls >= 1 =>
        /\ (ConfigLinkedIn # {} /\ ContactLinkedIn) =>
               /\ resume_data.basics.profiles = DeclaredProfiles(hugo_file.social)
               /\ Cardinality(LinkedInEntries) = Cardinality(ConfigLinkedIn)
        /\ (ConfigLinkedIn = {} /\ ContactLinkedIn) =>
               resume_data.basics.profiles =
                   Append(DeclaredProfiles(hugo_file.social), ContactProfile)
        /\ ~ContactLinkedIn =>
               resume_data.basics.profiles = DeclaredProfiles(hugo_file.social)

C2_Witness ==
    /\ calls >= 1 /\ ContactLinkedIn
    /\ Cardinality(ConfigLinkedIn) = 1 /\ Len(hugo_file.social) = 2
    /\ Cardinality(LinkedInEntries) = 1
    /\ Len(resume_data.basics.profiles) = 2

(***************************************************************************)
(* Defaulting in basics, checked under Spec.  What a source provides is    *)
(* read off the input documents.                                           *)
(***************************************************************************)
NameProvided == hugo_file.exists /\ hugo_file.title # None
LabelProvided == hugo_file.exists /\ hugo_file.info # <<>>
UrlProvided == hugo_file.exists /\ hugo_file.baseURL # None
EmailProvided == contact_file.exists /\ (contact_file.obfuscated \/ contact_file.email # None)
PhoneProvided == other_file.exists /\ other_file.phone # None
CityProvided == other_file.exists /\ other_file.city # None
CountryProvided == other_file.exists /\ other_file.country # None

BasicsKeys == {"name", "label", "email", "phone", "url", "summary", "location", "profiles"}
IsText(v) == IsList(v) /\ v # None

\* basics has its keys, none of them null, and name and label take their defaults
BasicsShape ==
    LET b == resume_data.basics
    IN  /\ DOMAIN b = BasicsKeys
        /\ \A k \in {"name", "label", "email", "phone", "url", "summary"} : IsText(b[k])
        /\ DOMAIN b.location = {"city", "countryCode", "region"}
        /\ \A k \in DOMAIN b.location : IsText(b.location[k])
        /\ IsList(b.profiles)
        /\ ~NameProvided => b.name = <<"S", "a", "l", "e", "h", " ", "M", "e", "h", "d", "i", "k", "h", "a", "n", "i">>
        /\ ~LabelProvided => b.label = T_DefaultLabel
        /\ ~EmailProvided => b.email = <<>>
        /\ ~PhoneProvided => b.phone = <<>>
        /\ ~UrlProvided => b.url = <<>>
        /\ ~CityProvided => b.location.city = <<>>

\* C11: after build_resume, basics always has the keys name, label, email, phone,
\* url, summary, location (city, countryCode, region) and profiles, none of them
\* null; a missing name or label takes its fixed literal default, and every other
\* scalar contact field that no source provided (email, phone, url, city,
\* country/region) is the empty string.
C11_MissingAreEmpty ==
    calls >= 1 =>
        /\ BasicsShape
        /\ ~CountryProvided => resume_data.basics.location.region = <<>>

\* C11 as amended: the same, except that a missing country gives location.region
\* the fixed literal default "Finland" instead of the empty string.
C11_DefaultsApplied ==
    calls >= 1 =>
        /\ BasicsShape
        /\ ~CountryProvided =>
               resume_data.basics.location.region = <<"F", "i", "n", "l", "a", "n", "d">>

C11_Witness ==
    /\ calls >= 1
    /\ ~hugo_file.exists /\ ~contact_file.exists /\ ~other_file.exists
    /\ resume_data.basics.email = <<>> /\ resume_data.basics.location.city = <<>>
    /\ resume_data.basics.location.region = T_Finland

(***************************************************************************)
(* Repeated runs on one converter object, checked under Spec.  The input   *)
(* documents never change (no action writes them).                         *)
(***************************************************************************)
\* the output file holds the result of a build_resume
SavedBuilt == saved.done /\ DOMAIN saved.value.basics # {}

\* C12: idempotence.  Once build_resume has run, a further run on the same
\* converter object and unchanged input documents changes no field of the record
\* and grows no list, and once save_json has written the result of a build, every
\* later save_json writes the identical output.
C12_Idempotent ==
    [][calls >= 1 => /\ resume_data' = resume_data
                     /\ SavedBuilt => saved'.value = saved.value]_vars

C12_Witness ==
    /\ calls = 2 /\ SavedBuilt /\ saved.value = resume_data
    /\ ConfigLinkedIn = {} /\ ContactLinkedIn
    /\ Len(resume_data.basics.profiles) = Len(DeclaredProfiles(hugo_file.social)) + 1
    /\ about_file # Absent /\ Len(resume_data.work) >= 1
    /\ projects_file.exists

(***************************************************************************)
(* Documents the three section extractors are run on: a `## <kind>`        *)
(* heading (or none), `before` entries of that kind, a separator (nothing, *)
(* a horizontal rule, or the heading of another section) and `after`       *)
(* further entries.  Entry i carries the name Dev<i>.                      *)
(***************************************************************************)
MaxEntries == 2

SectionKinds == {"Skills", "Experience", "Education"}
SectionSeps == {"none", "rule", "heading"}
SectionToks ==
    [kind : SectionKinds, heading : BOOLEAN, before : 0..MaxEntries,
     sep : SectionSeps, after : 0..MaxEntries]

EntryName(i) == <<"D", "e", "v", DigitSeq[i + 1]>>

RenderEntry(kind, i) ==
    IF kind = "Skills"
    THEN <<"-", " ", "*", "*">> \o EntryName(i) \o <<":", "*", "*", " ", "a", ",", " ", "b", NL>>
    ELSE IF kind = "Experience"
    THEN <<"#", "#", "#", " ">> \o EntryName(i) \o <<NL>>
         \o <<"*", "*">> \o T_Acme \o <<"*", "*", " ", NDASH, " ">> \o T_Helsinki \o <<NL>>
         \o <<"(", "*", "2", "0", "1", "9", "*", ")", NL, NL>> \o T_Built \o <<NL>>
    ELSE <<"#", "#", "#", " ">> \o EntryName(i) \o <<NL>>
         \o <<"*", "*", "U", "n", "i", "*", "*", NL>>
         \o <<"(", "*", "2", "0", "1", "9", "*", ")", NL, NL, "G", "o", "o", "d", ".", NL>>

RECURSIVE RenderEntries(_, _, _)
RenderEntries(kind, from, to) ==
    IF from > to THEN <<>>
    ELSE RenderEntry(kind, from) \o RenderEntries(kind, from + 1, to)

SectionHeading(kind) ==
    <<"#", "#", " ">>
    \o (IF kind = "Skills" THEN <<"S", "k", "i", "l", "l", "s">>
        ELSE IF kind = "Experience" THEN <<"E", "x", "p", "e", "r", "i", "e", "n", "c", "e">>
        ELSE <<"E", "d", "u", "c", "a", "t", "i", "o", "n">>)
    \o <<NL, NL>>

SepText(sep) ==
    IF sep = "rule" THEN <<NL, "-", "-", "-", NL, NL>>
    ELSE IF sep = "heading" THEN <<NL, "#", "#", " ", "N", "o", "t", "e", "s", NL, NL>>
    ELSE <<>>

RenderSection(t) ==
    T_Intro
    \o (IF t.heading THEN SectionHeading(t.kind) ELSE <<>>)
    \o RenderEntries(t.kind, 1, t.before)
    \o SepText(t.sep)
    \o RenderEntries(t.kind, t.before + 1, t.before + t.after)

InitSection ==
    /\ work_blocks \in SectionToks
    /\ work_body = RenderSection(work_blocks)
    /\ work_out = NoWork
    /\ IdleDate /\ IdleBuild

\* a call parse_skills(body), parse_work_experience(body) or parse_education(body)
ParseSection ==
    /\ ~work_out.done
    /\ work_out' = [done |-> TRUE,
                    value |-> IF work_blocks.kind = "Skills" THEN parse_skills(work_body)
                              ELSE IF work_blocks.kind = "Experience"
                              THEN parse_work_experience(work_body)
                              ELSE parse_education(work_body)]
    /\ UNCHANGED <<work_blocks, work_body>>

NextSection ==
    ParseSection /\ UNCHANGED <<dateVars, buildVars>>

\* the section extractors run on every document of InitSection
SpecSection == InitSection /\ [][NextSection]_vars

\* the names of the entries an extractor returned
ExtractedNames ==
    [i \in 1..Len(work_out.value) |->
        IF work_blocks.kind = "Skills" THEN work_out.value[i].name
        ELSE IF work_blocks.kind = "Experience" THEN work_out.value[i].position
        ELSE work_out.value[i].studyType]

\* C13: every section extractor takes as its span the text after its heading up to
\* the first of the next `## ` heading, a horizontal rule, or the end of the
\* document: the entries extracted are those written before the first rule or
\* heading (all of them when there is neither), and none when the heading is absent.
C13_SpanStopsAtRule ==
    work_out.done =>
        ExtractedNames =
            [i \in 1..(IF ~work_blocks.heading THEN 0
                       ELSE IF work_blocks.sep = "none"
                       THEN work_blocks.before + work_blocks.after
                       ELSE work_blocks.before) |-> EntryName(i)]

(***************************************************************************)
(* The summary, checked under Spec.                                        *)
(***************************************************************************)
\* the lines of basics.summary
SummaryLines == Split(resume_data.basics.summary, <<NL>>)

\* C14: basics.summary is the first paragraph of the About document's body, the
\* contiguous non-blank lines before the first heading: it never contains a heading
\* line, and it is the empty string when the body starts directly with a heading.
C14_SummaryBeforeHeading ==
    (calls >= 1 /\ about_file # Absent) =>
        /\ \A i \in 1..Len(SummaryLines) : ~StartsWith(SummaryLines[i], <<"#", "#">>)
        /\ StartsWith(about_file, <<"#", "#">>) => resume_data.basics.summary = <<>>
        /\ about_file = T_About1 =>
               resume_data.basics.summary =
                   <<"A", "b", "o", "u", "t", " ", "m", "e", ".", NL, "M", "o", "r", "e", ".">>

(***************************************************************************)
(* The dict parse_hugo_config returned, checked under Spec.                *)
(***************************************************************************)
\* C15: the assembler never mutates a value an extractor has returned: after
\* build_resume the profiles list of the dict the Site Configuration extractor
\* returned is still the list of the profiles the configuration declares, also when
\* a contact-derived LinkedIn profile has been appended to basics.profiles.
C15_ConfigNotMutated ==
    calls >= 1 =>
        Get(config_data, "profiles", <<>>) = DeclaredProfiles(hugo_file.social)

(***************************************************************************)
(* The phone field, checked under Spec.                                    *)
(***************************************************************************)
\* the number written after the **Phone:** marker of the Other document
WrittenPhone == Strip(other_file.phone)

\* C16: a number written without a leading "+" is emitted as "+358 " followed by
\* the number with its leading zero stripped, and a number written with a leading
\* "+" is extracted as written.
C16_PhoneReformatted ==
    (calls >= 1 /\ other_file.exists /\ other_file.phone # None) =>
        resume_data.basics.phone =
            IF StartsWith(WrittenPhone, <<"+">>) THEN WrittenPhone
            ELSE <<"+", "3", "5", "8", " ">>
                 \o (IF StartsWith(WrittenPhone, <<"0">>) THEN Tail(WrittenPhone)
                     ELSE WrittenPhone)

====
